---- MODULE Spec2Model ----
(***************************************************************************)
(* Worker execution engine of the Jimeng/Dreamina batch image generator    *)
(* (src/main.py): class WorkerThread (start, stop, run, process_prompt,    *)
(* call_api, load_sessions) and JimengGUI.run_all / stop_all.              *)
(*                                                                         *)
(* A worker owns a session file and a prompt file.  start() launches an    *)
(* executor thread that runs run(); the controller (the GUI thread) calls  *)
(* start() and stop() at any time.  Every thread started on a worker       *)
(* shares that worker's fields running, current_session_index and          *)
(* sessions; the locals of run() and process_prompt() are per thread.      *)
(***************************************************************************)
EXTENDS Integers, Sequences, FiniteSets, TLC

(* ------------------------------ bounds -------------------------------- *)
NumWorkers == 2
MaxThreads == 2
MaxSessions == 2
MaxPrompts == 2
MaxImages == 2
MaxEach == 1

Workers == 1..NumWorkers
Threads == 1..MaxThreads

(* --------------------------- program constants ------------------------ *)
SESSION_ERROR_CODES == {-2009, -2001, -2002, -2003, -1001}

(* ------------------------- the API's responses ------------------------ *)
(* What one requests.post(...) + response.json() can deliver: a transport  *)
(* error or a timeout (an exception of requests.post), a body that does    *)
(* not parse (JSONDecodeError), or a parsed body, that came with an HTTP   *)
(* success or error status.  A body has an optional numeric "code" and an  *)
(* optional "data" list whose items carry a url or not.                    *)
Codes == SESSION_ERROR_CODES \cup {-1, 0, 1, 7, 1001}
Items == {"url", "nourl"}
RECURSIVE SeqsUpTo(_, _)
SeqsUpTo(S, n) ==
    IF n = 0 THEN {<<>>}
    ELSE LET shorter == SeqsUpTo(S, n - 1)
         IN  shorter \cup {Append(s, x) : s \in {q \in shorter : Len(q) = n - 1}, x \in S}
DataLists == SeqsUpTo(Items, MaxImages)

Bodies ==
    [has_code : {FALSE}, code : {0}, has_data : {FALSE}, data : {<<>>}]
    \cup [has_code : {TRUE}, code : Codes, has_data : {FALSE}, data : {<<>>}]
    \cup [has_code : {FALSE}, code : {0}, has_data : {TRUE}, data : DataLists]
    \cup [has_code : {TRUE}, code : Codes, has_data : {TRUE}, data : DataLists]
NoBody == [has_code |-> FALSE, code |-> 0, has_data |-> FALSE, data |-> <<>>]
Responses ==
    [fault : {"transport", "timeout"}, http_error : {FALSE}, body : {NoBody}]
    \cup [fault : {"parse"}, http_error : BOOLEAN, body : {NoBody}]
    \cup [fault : {"none"}, http_error : BOOLEAN, body : Bodies]

(* ------------------------------ call_api ------------------------------ *)
(* The pair (result, should_switch) returned by call_api.  result is None  *)
(* or the parsed body; process_prompt reads only its "data".               *)
None == [none |-> TRUE, data |-> <<>>]
Some(body) == [none |-> FALSE, data |-> body.data]

(* call_api without the sign rule of line 170.                             *)
call_api_NoSignRule(resp) ==
    IF resp.fault # "none"
    THEN [result |-> None, should_switch |-> TRUE]
    ELSE LET b == resp.body IN
         IF b.has_code /\ b.code # 0
         THEN [result |-> None, should_switch |-> (b.code \in SESSION_ERROR_CODES)]
         ELSE IF b.has_data /\ b.data # <<>>
         THEN [result |-> Some(b), should_switch |-> FALSE]
         ELSE [result |-> None, should_switch |-> TRUE]

call_api(resp) ==
    IF resp.fault # "none"
    THEN (* requests.post raised, or response.json() raised: the except clauses *)
         [result |-> None, should_switch |-> TRUE]
    ELSE LET b == resp.body IN
         IF b.has_code /\ b.code # 0
         THEN [result |-> None,
               should_switch |-> (b.code \in SESSION_ERROR_CODES \/ b.code < 0)]
         ELSE IF b.has_data /\ b.data # <<>>
         THEN [result |-> Some(b), should_switch |-> FALSE]
         ELSE [result |-> None, should_switch |-> TRUE]

(* How process_prompt reads the pair: lines 206, 230, 239.                 *)
IsSuccess(out) == ~out.result.none /\ out.result.data # <<>>
Classification(out) ==
    IF IsSuccess(out) THEN "Success"
    ELSE IF out.should_switch THEN "SwitchSession"
    ELSE "Abort"

(* The downloads of a successful attempt: the 1-based positions of the     *)
(* items that carry a url, in the order returned (lines 211-224).          *)
(* The download loop without the url test of line 213.                     *)
Scheduled_All(data, k) == [j \in 1..(Len(data) - k + 1) |-> j + k - 1]

RECURSIVE Scheduled(_, _)
Scheduled(data, k) ==
    IF k > Len(data) THEN <<>>
    ELSE IF data[k] = "url" THEN <<k>> \o Scheduled(data, k + 1)
    ELSE Scheduled(data, k + 1)
Range(s) == {s[k] : k \in 1..Len(s)}

(* ------------------------------- files -------------------------------- *)
(* A source file is unreadable (-1) or holds n >= 0 non-blank lines; the   *)
(* lines are named 1..n.                                                   *)
Unreadable == -1
FileStates(n) == {Unreadable} \cup (0..n)
Lines(n) == [k \in 1..n |-> k]

(* ------------------------------- state -------------------------------- *)
VARIABLES
    session_file,            \* per worker: the session source
    prompt_file,             \* per worker: the prompt source
    running,                 \* per worker: self.running
    current_session_index,   \* per worker: self.current_session_index
    sessions,                \* per worker: self.sessions
    thread,                  \* per worker: number of threads start() created
    th,                      \* per worker and thread: the executor's locals
    event,                   \* the call or step taken last, and what it delivered
    api                      \* the HTTP exchange classified last (call_api alone)

vars == <<session_file, prompt_file, running, current_session_index, sessions,
          thread, th, event, api>>

(* The locals of one executor thread.  pc is its position:                 *)
(*   "new"      not created       "run"     at the top of run()            *)
(*   "open"     sessions loaded, about to read the prompt file             *)
(*   "for"      at the top of the prompt loop                              *)
(*   "while"    at the top of the attempt loop of process_prompt           *)
(*   "call_api" API call in flight                                         *)
(*   "switch"   read the cursor, about to write it back advanced           *)
(*   "returned" process_prompt returned                                    *)
(*   "clear"    after the loop, about to clear running                     *)
(*   "publish"  about to publish the final status    "done"  thread ended  *)
(* prompts, i, tried_sessions, success are the locals of the code; idx is  *)
(* the cursor value read by line 232.  The other fields record history:    *)
(*   calls      API calls issued by the current process_prompt             *)
(*   used       the credentials those calls used, in order                 *)
(*   exit       how the current process_prompt ended                       *)
(*   exhausted  "All N sessions exhausted" was logged for this prompt      *)
(*   dl         the downloads scheduled (download_image, lines 124-135,    *)
(*              writes the file or logs its failure; files are written     *)
(*              nowhere else)                                              *)
(*   attempted  the prompts passed to process_prompt so far                *)
(*   logged     the prompts whose outcome run() logged so far              *)
(*   status     the status text this run published last                    *)
(*   stop_req   "no", or stop() was called while this thread was alive:    *)
(*              "prompt" if one such call came while the thread was inside *)
(*              process_prompt, else "idle"                                *)
(*   halted     this thread observed running = False at a check point      *)
(*   left       the cursor when the last process_prompt returned, kept     *)
(*              until the first API call of the next prompt                *)
Status(text) == [text |-> text, i |-> 0, total |-> 0]
Progress(i, total) == [text |-> "Processing", i |-> i, total |-> total]

NewThread ==
    [pc |-> "new", prompts |-> 0, i |-> 0, tried_sessions |-> 0, idx |-> 0,
     success |-> FALSE, calls |-> 0, used |-> <<>>, exit |-> "none",
     exhausted |-> FALSE, dl |-> <<>>, attempted |-> <<>>,
     logged |-> <<>>, status |-> Status("Ready"), stop_req |-> "no", halted |-> FALSE,
     left |-> 0]

Alive(w, t) == th[w][t].pc \notin {"new", "done"}
InPrompt(w, t) == th[w][t].pc \in {"while", "call_api", "switch"}

(* event: op is "init", "start", "stop", "step" (an executor step),        *)
(* "reply" (the API call of thread t returned), "logged" (run() of thread   *)
(* t logged the outcome of a prompt), "run_all", "stop_all" or "edit" (the *)
(* session file was rewritten); a reply carries its                        *)
(* classification and the data list of a successful result, a logged       *)
(* outcome the way process_prompt ended.                                   *)
Event(op, w) == [op |-> op, w |-> w, t |-> 0, class |-> "none", data |-> <<>>]
Reply(w, t, out) ==
    [op |-> "reply", w |-> w, t |-> t, class |-> Classification(out),
     data |-> out.result.data]
Logged(w, t, exit) ==
    [op |-> "logged", w |-> w, t |-> t, class |-> exit, data |-> <<>>]
NoCall == [resp |-> [fault |-> "none", http_error |-> FALSE, body |-> NoBody],
           out |-> [result |-> None, should_switch |-> TRUE], made |-> FALSE]

(* __init__: lines 71-86.  The files are the environment's.                *)
InitWorker ==
    /\ running = [w \in Workers |-> FALSE]
    /\ current_session_index = [w \in Workers |-> 0]
    /\ sessions = [w \in Workers |-> <<>>]
    /\ thread = [w \in Workers |-> 0]
    /\ th = [w \in Workers |-> [t \in Threads |-> NewThread]]
    /\ event = Event("init", 0)
    /\ api = NoCall

(* ------------------------- the controller's calls --------------------- *)
(* start() without the running test of line 293.                          *)
Start_Unguarded(w) ==
    /\ thread[w] < MaxThreads
    /\ event' = Event("start", w)
    /\ running' = [running EXCEPT ![w] = TRUE]
    /\ current_session_index' = [current_session_index EXCEPT ![w] = 0]
    /\ thread' = [thread EXCEPT ![w] = @ + 1]
    /\ th' = [th EXCEPT ![w][thread[w] + 1].pc = "run"]
    /\ UNCHANGED <<session_file, prompt_file, sessions, api>>

(* start(): lines 291-298, taken in one step of the controller.  The       *)
(* thread it creates begins at the top of run().  At most MaxThreads       *)
(* threads are created per worker.                                         *)
Start(w) ==
    /\ running[w] \/ thread[w] < MaxThreads
    /\ event' = Event("start", w)
    /\ IF running[w]
       THEN UNCHANGED <<running, current_session_index, thread, th>>
       ELSE /\ running' = [running EXCEPT ![w] = TRUE]
            /\ current_session_index' = [current_session_index EXCEPT ![w] = 0]
            /\ thread' = [thread EXCEPT ![w] = @ + 1]
            /\ th' = [th EXCEPT ![w][thread[w] + 1].pc = "run"]
    /\ UNCHANGED <<session_file, prompt_file, sessions, api>>

(* stop() clearing the flag of every worker instead of its own.            *)
Stop_StopsEveryWorker(w) ==
    /\ running' = [v \in Workers |-> FALSE]
    /\ th' = [th EXCEPT ![w] =
                [t \in Threads |-> IF Alive(w, t)
                                   THEN [th[w][t] EXCEPT !.stop_req =
                                           IF InPrompt(w, t) \/ @ = "prompt"
                                           THEN "prompt" ELSE "idle"]
                                   ELSE th[w][t]]]
    /\ event' = Event("stop", w)
    /\ UNCHANGED <<session_file, prompt_file, current_session_index, sessions,
                   thread, api>>

(* stop(): lines 300-302.                                                  *)
Stop(w) ==
    /\ running' = [running EXCEPT ![w] = FALSE]
    /\ th' = [th EXCEPT ![w] =
                [t \in Threads |-> IF Alive(w, t)
                                   THEN [th[w][t] EXCEPT !.stop_req =
                                           IF InPrompt(w, t) \/ @ = "prompt"
                                           THEN "prompt" ELSE "idle"]
                                   ELSE th[w][t]]]
    /\ event' = Event("stop", w)
    /\ UNCHANGED <<session_file, prompt_file, current_session_index, sessions,
                   thread, api>>

(* run_all(): lines 514-519, start() on every worker whose flag is false.  *)
(* The loop is taken in one step of the controller: its iterations touch   *)
(* different workers, and an executor step between two iterations is a     *)
(* step of one worker only, so it commutes with the iterations of the      *)
(* others.                                                                 *)
RunAll ==
    /\ \A w \in Workers : running[w] \/ thread[w] < MaxThreads
    /\ event' = Event("run_all", 0)
    /\ running' = [w \in Workers |-> TRUE]
    /\ current_session_index' =
         [w \in Workers |-> IF running[w] THEN current_session_index[w] ELSE 0]
    /\ thread' = [w \in Workers |-> IF running[w] THEN thread[w] ELSE thread[w] + 1]
    /\ th' = [w \in Workers |->
                IF running[w] THEN th[w]
                ELSE [th[w] EXCEPT ![thread[w] + 1].pc = "run"]]
    /\ UNCHANGED <<session_file, prompt_file, sessions, api>>

(* stop_all(): lines 521-526, stop() on every worker whose flag is true.   *)
StopAll ==
    /\ event' = Event("stop_all", 0)
    /\ running' = [w \in Workers |-> FALSE]
    /\ th' = [w \in Workers |->
                IF ~running[w] THEN th[w]
                ELSE [t \in Threads |->
                        IF Alive(w, t)
                        THEN [th[w][t] EXCEPT !.stop_req =
                                IF InPrompt(w, t) \/ @ = "prompt"
                                THEN "prompt" ELSE "idle"]
                        ELSE th[w][t]]]
    /\ UNCHANGED <<session_file, prompt_file, current_session_index, sessions,
                   thread, api>>

(* --------------------------- the executor ----------------------------- *)
Stepped(w) == event' = Event("step", w)

(* run() going on with an empty session list after a failed load.          *)
LoadSessions_IgnoresFailure(w, t) ==
    /\ th[w][t].pc = "run"
    /\ sessions' = [sessions EXCEPT ![w] =
                      IF session_file[w] = Unreadable THEN <<>>
                      ELSE Lines(session_file[w])]
    /\ th' = [th EXCEPT ![w][t].pc = "open"]
    /\ Stepped(w)
    /\ UNCHANGED <<session_file, prompt_file, running, current_session_index,
                   thread, api>>

(* run(), lines 247-249, with load_sessions, lines 102-114.                *)
LoadSessions(w, t) ==
    /\ th[w][t].pc = "run"
    /\ IF session_file[w] = Unreadable
       THEN /\ UNCHANGED sessions
            /\ th' = [th EXCEPT ![w][t].pc = "done",
                                ![w][t].status = Status("Error: No sessions")]
       ELSE /\ sessions' = [sessions EXCEPT ![w] = Lines(session_file[w])]
            /\ IF session_file[w] = 0
               THEN th' = [th EXCEPT ![w][t].pc = "done",
                                     ![w][t].status = Status("Error: No sessions")]
               ELSE th' = [th EXCEPT ![w][t].pc = "open"]
    /\ Stepped(w)
    /\ UNCHANGED <<session_file, prompt_file, running, current_session_index,
                   thread, api>>

(* run(), lines 251-265.                                                   *)
OpenPrompts(w, t) ==
    /\ th[w][t].pc = "open"
    /\ LET me == th[w][t] IN
       th' = [th EXCEPT ![w][t] =
                IF prompt_file[w] = Unreadable
                THEN [me EXCEPT !.pc = "done", !.status = Status("Error")]
                ELSE IF prompt_file[w] = 0
                THEN [me EXCEPT !.pc = "done", !.status = Status("Error: No prompts")]
                ELSE [me EXCEPT !.pc = "for", !.prompts = prompt_file[w], !.i = 0,
                                !.status = Status("Running...")]]
    /\ Stepped(w)
    /\ UNCHANGED <<session_file, prompt_file, running, current_session_index,
                   sessions, thread, api>>

(* The prompt loop resetting the cursor at the entry of every prompt.      *)
ForCheck_ResetsCursor(w, t) ==
    /\ th[w][t].pc = "for"
    /\ LET me == th[w][t] IN
       /\ th' = [th EXCEPT ![w][t] =
                   IF me.i >= me.prompts
                   THEN [me EXCEPT !.pc = "clear"]
                   ELSE IF ~running[w]
                   THEN [me EXCEPT !.pc = "clear", !.halted = TRUE]
                   ELSE [me EXCEPT !.pc = "while", !.tried_sessions = 0,
                                   !.status = Progress(me.i + 1, me.prompts),
                                   !.attempted = Append(me.attempted, me.i + 1)]]
       /\ current_session_index' =
            IF me.i < me.prompts /\ running[w]
            THEN [current_session_index EXCEPT ![w] = 0]
            ELSE current_session_index
    /\ Stepped(w)
    /\ UNCHANGED <<session_file, prompt_file, running, sessions, thread, api>>

(* run(), lines 267-276: the loop head, the running check, and the entry   *)
(* of process_prompt (line 198).  i counts from 0 as enumerate does.       *)
ForCheck(w, t) ==
    /\ th[w][t].pc = "for"
    /\ LET me == th[w][t] IN
       th' = [th EXCEPT ![w][t] =
                IF me.i >= me.prompts
                THEN [me EXCEPT !.pc = "clear"]
                ELSE IF ~running[w]
                THEN [me EXCEPT !.pc = "clear", !.halted = TRUE]
                ELSE [me EXCEPT !.pc = "while", !.tried_sessions = 0,
                                !.status = Progress(me.i + 1, me.prompts),
                                !.attempted = Append(me.attempted, me.i + 1)]]
    /\ Stepped(w)
    /\ UNCHANGED <<session_file, prompt_file, running, current_session_index,
                   sessions, thread, api>>

(* The attempt loop with <= for < in line 200.                             *)
WhileCheck_OffByOne(w, t) ==
    /\ th[w][t].pc = "while"
    /\ LET me == th[w][t] IN
       th' = [th EXCEPT ![w][t] =
                IF running[w] /\ me.tried_sessions <= Len(sessions[w])
                THEN IF current_session_index[w] < Len(sessions[w])
                     THEN [me EXCEPT !.pc = "call_api", !.calls = me.calls + 1,
                             !.left = 0,
                             !.used = Append(me.used,
                                             sessions[w][current_session_index[w] + 1])]
                     ELSE [me EXCEPT !.pc = "done", !.exit = "raised"]
                ELSE [me EXCEPT !.pc = "returned", !.success = FALSE,
                                !.exit = IF running[w] THEN "exhausted" ELSE "stopped",
                                !.halted = me.halted \/ ~running[w],
                                !.left = current_session_index[w]]]
    /\ Stepped(w)
    /\ UNCHANGED <<session_file, prompt_file, running, current_session_index,
                   sessions, thread, api>>

(* process_prompt, lines 200-204 and 243: the loop condition, the read of  *)
(* the current credential and the start of the API call.  An index out of  *)
(* range raises IndexError, which nothing catches: the thread ends.        *)
WhileCheck(w, t) ==
    /\ th[w][t].pc = "while"
    /\ LET me == th[w][t] IN
       th' = [th EXCEPT ![w][t] =
                IF running[w] /\ me.tried_sessions < Len(sessions[w])
                THEN IF current_session_index[w] < Len(sessions[w])
                     THEN [me EXCEPT !.pc = "call_api", !.calls = me.calls + 1,
                             !.left = 0,
                             !.used = Append(me.used,
                                             sessions[w][current_session_index[w] + 1])]
                     ELSE [me EXCEPT !.pc = "done", !.exit = "raised"]
                ELSE [me EXCEPT !.pc = "returned", !.success = FALSE,
                                !.exit = IF running[w] THEN "exhausted" ELSE "stopped",
                                !.halted = me.halted \/ ~running[w],
                                !.left = current_session_index[w]]]
    /\ Stepped(w)
    /\ UNCHANGED <<session_file, prompt_file, running, current_session_index,
                   sessions, thread, api>>

(* The handling of a reply with the else branch of lines 239-241 missing:  *)
(* whatever is not a success rotates.                                      *)
ApiReturn_AbortRotates(w, t) ==
    /\ th[w][t].pc = "call_api"
    /\ \E out \in {call_api(resp) : resp \in Responses} :
         /\ event' = Reply(w, t, out)
         /\ IF IsSuccess(out)
            THEN th' = [th EXCEPT ![w][t].pc = "returned", ![w][t].success = TRUE,
                                  ![w][t].exit = "success",
                                  ![w][t].left = current_session_index[w],
                                  ![w][t].dl = Scheduled(out.result.data, 1)]
            ELSE th' = [th EXCEPT ![w][t].pc = "switch",
                                  ![w][t].idx = current_session_index[w]]
    /\ UNCHANGED <<session_file, prompt_file, running, current_session_index,
                   sessions, thread, api>>

(* The API call returns: call_api, lines 153-189, then lines 206-241 of    *)
(* process_prompt up to the read of the cursor in line 232.                *)
ApiReturn(w, t) ==
    /\ th[w][t].pc = "call_api"
    /\ \E out \in {call_api(resp) : resp \in Responses} :
         /\ event' = Reply(w, t, out)
         /\ IF IsSuccess(out)
            THEN th' = [th EXCEPT ![w][t].pc = "returned", ![w][t].success = TRUE,
                                  ![w][t].exit = "success",
                                  ![w][t].left = current_session_index[w],
                                  ![w][t].dl = Scheduled(out.result.data, 1)]
            ELSE IF out.should_switch
            THEN th' = [th EXCEPT ![w][t].pc = "switch",
                                  ![w][t].idx = current_session_index[w]]
            ELSE th' = [th EXCEPT ![w][t].pc = "returned", ![w][t].success = FALSE,
                                  ![w][t].exit = "abort",
                                  ![w][t].left = current_session_index[w]]
    /\ UNCHANGED <<session_file, prompt_file, running, current_session_index,
                   sessions, thread, api>>

(* process_prompt, lines 232-238: the write of the advanced cursor.        *)
(* The modulo by the length of an empty list raises, and the exception    *)
(* ends the thread.                                                        *)
Switch(w, t) ==
    /\ th[w][t].pc = "switch"
    /\ LET me == th[w][t] IN
       IF Len(sessions[w]) = 0
       THEN /\ th' = [th EXCEPT ![w][t] = [me EXCEPT !.pc = "done", !.exit = "raised"]]
            /\ UNCHANGED current_session_index
       ELSE /\ current_session_index' =
                 [current_session_index EXCEPT ![w] = (me.idx + 1) % Len(sessions[w])]
            /\ th' = [th EXCEPT ![w][t] =
                        [me EXCEPT !.pc = "while", !.idx = 0,
                                   !.tried_sessions = me.tried_sessions + 1,
                                   !.exhausted = (me.tried_sessions + 1 >= Len(sessions[w]))]]
    /\ Stepped(w)
    /\ UNCHANGED <<session_file, prompt_file, running, sessions, thread, api>>

(* The prompt loop stepping over the prompt after the current one.         *)
Returned_SkipsNext(w, t) ==
    /\ th[w][t].pc = "returned"
    /\ LET me == th[w][t] IN
       th' = [th EXCEPT ![w][t] =
                [me EXCEPT !.pc = "for", !.i = me.i + 2,
                           !.logged = Append(me.logged, me.i + 1),
                           !.tried_sessions = 0, !.success = FALSE, !.calls = 0,
                           !.used = <<>>, !.exit = "none", !.exhausted = FALSE,
                           !.dl = <<>>]]
    /\ event' = Logged(w, t, th[w][t].exit)
    /\ UNCHANGED <<session_file, prompt_file, running, current_session_index,
                   sessions, thread, api>>

(* The prompt loop ending the run at the first prompt that failed.         *)
Returned_BreaksOnFailure(w, t) ==
    /\ th[w][t].pc = "returned"
    /\ LET me == th[w][t] IN
       th' = [th EXCEPT ![w][t] =
                [me EXCEPT !.pc = IF me.success THEN "for" ELSE "clear",
                           !.i = me.i + 1,
                           !.logged = Append(me.logged, me.i + 1),
                           !.tried_sessions = 0, !.success = FALSE, !.calls = 0,
                           !.used = <<>>, !.exit = "none", !.exhausted = FALSE,
                           !.dl = <<>>]]
    /\ event' = Logged(w, t, th[w][t].exit)
    /\ UNCHANGED <<session_file, prompt_file, running, current_session_index,
                   sessions, thread, api>>

(* run(), lines 276-280: process_prompt has returned, its outcome is       *)
(* logged and the loop goes to the next prompt.                            *)
Returned(w, t) ==
    /\ th[w][t].pc = "returned"
    /\ LET me == th[w][t] IN
       th' = [th EXCEPT ![w][t] =
                [me EXCEPT !.pc = "for", !.i = me.i + 1,
                           !.logged = Append(me.logged, me.i + 1),
                           !.tried_sessions = 0, !.success = FALSE, !.calls = 0,
                           !.used = <<>>, !.exit = "none", !.exhausted = FALSE,
                           !.dl = <<>>]]
    /\ event' = Logged(w, t, th[w][t].exit)
    /\ UNCHANGED <<session_file, prompt_file, running, current_session_index,
                   sessions, thread, api>>

(* run(), line 282.                                                        *)
ClearRunning(w, t) ==
    /\ th[w][t].pc = "clear"
    /\ running' = [running EXCEPT ![w] = FALSE]
    /\ th' = [th EXCEPT ![w][t].pc = "publish"]
    /\ Stepped(w)
    /\ UNCHANGED <<session_file, prompt_file, current_session_index, sessions,
                   thread, api>>

(* run(), lines 283-289.                                                   *)
Publish(w, t) ==
    /\ th[w][t].pc = "publish"
    /\ th' = [th EXCEPT ![w][t].pc = "done",
                        ![w][t].status = IF running[w] THEN Status("Completed")
                                         ELSE Status("Stopped")]
    /\ Stepped(w)
    /\ UNCHANGED <<session_file, prompt_file, running, current_session_index,
                   sessions, thread, api>>

(* ---------------------------- specification --------------------------- *)
(* One worker under the controller's start() and stop() and the steps of   *)
(* its executor threads; the other workers stay as constructed.            *)
Init ==
    /\ InitWorker
    /\ session_file \in [Workers -> FileStates(MaxSessions)]
    /\ prompt_file \in [Workers -> FileStates(MaxPrompts)]
    /\ \A w \in Workers \ {1} : session_file[w] = 1 /\ prompt_file[w] = 1

Next ==
    \E w \in {1} :
        \/ Start(w)
        \/ Stop(w)
        \/ \E t \in Threads :
            \/ LoadSessions(w, t)
            \/ OpenPrompts(w, t)
            \/ ForCheck(w, t)
            \/ WhileCheck(w, t)
            \/ ApiReturn(w, t)
            \/ Switch(w, t)
            \/ Returned(w, t)
            \/ ClearRunning(w, t)
            \/ Publish(w, t)

Spec == Init /\ [][Next]_vars

(* call_api alone, over every response of the HTTP layer.                  *)
CallApi ==
    /\ \E resp \in Responses :
         api' = [resp |-> resp, out |-> call_api(resp), made |-> TRUE]
    /\ UNCHANGED <<session_file, prompt_file, running, current_session_index,
                   sessions, thread, th, event>>

InitClassify ==
    /\ InitWorker
    /\ session_file = [w \in Workers |-> 1]
    /\ prompt_file = [w \in Workers |-> 1]

NextClassify == CallApi

ClassifySpec == InitClassify /\ [][NextClassify]_vars

(* Every worker of the set under the controller: run_all(), stop_all(),    *)
(* start() and stop() of single workers, and the executor steps.  Each     *)
(* worker is started at most MaxEach times, on files of at most MaxEach    *)
(* lines.                                                                  *)
Capped(w) == running[w] \/ thread[w] < MaxEach

InitMulti ==
    /\ InitWorker
    /\ session_file \in [Workers -> FileStates(MaxEach)]
    /\ prompt_file \in [Workers -> FileStates(MaxEach)]

NextMulti ==
    \/ (\A w \in Workers : Capped(w)) /\ RunAll
    \/ StopAll
    \/ \E w \in Workers :
        \/ Capped(w) /\ Start(w)
        \/ Stop(w)
        \/ \E t \in Threads :
            \/ LoadSessions(w, t)
            \/ OpenPrompts(w, t)
            \/ ForCheck(w, t)
            \/ WhileCheck(w, t)
            \/ ApiReturn(w, t)
            \/ Switch(w, t)
            \/ Returned(w, t)
            \/ ClearRunning(w, t)
            \/ Publish(w, t)

MultiSpec == InitMulti /\ [][NextMulti]_vars

(* One worker as in Spec, on a batch of MaxEach prompts, with a session    *)
(* file that is edited between the reads of load_sessions: every run       *)
(* reads the file anew (line 105).                                         *)
EditSessions(w) ==
    /\ \E f \in FileStates(MaxSessions) \ {session_file[w]} :
         session_file' = [session_file EXCEPT ![w] = f]
    /\ event' = Event("edit", w)
    /\ UNCHANGED <<prompt_file, running, current_session_index, sessions,
                   thread, th, api>>

InitEdit ==
    /\ InitWorker
    /\ session_file \in [Workers -> FileStates(MaxSessions)]
    /\ prompt_file = [w \in Workers |-> MaxEach]
    /\ \A w \in Workers \ {1} : session_file[w] = 1

NextEdit ==
    \E w \in {1} :
        \/ Start(w)
        \/ Stop(w)
        \/ EditSessions(w)
        \/ \E t \in Threads :
            \/ LoadSessions(w, t)
            \/ OpenPrompts(w, t)
            \/ ForCheck(w, t)
            \/ WhileCheck(w, t)
            \/ ApiReturn(w, t)
            \/ Switch(w, t)
            \/ Returned(w, t)
            \/ ClearRunning(w, t)
            \/ Publish(w, t)

EditSpec == InitEdit /\ [][NextEdit]_vars

(* ============================== claims ================================ *)
(* The thread whose API call a "reply" event reports.                      *)
Replied(w, t) == event.op = "reply" /\ event.w = w /\ event.t = t
IsPrefixOfOrder(s) == \A k \in 1..Len(s) : s[k] = k
Increasing(s) == \A j, k \in 1..Len(s) : j < k => s[j] < s[k]

(* C1: a process_prompt whose attempts all rotated and that saw running    *)
(* true at every check (exit "exhausted") issued exactly N = len(sessions) *)
(* API calls and logged the exhaustion; no process_prompt ever issues more *)
(* than N calls, and it leaves the loop on exhaustion only at N rotations. *)
C1_ExhaustsAfterExactlyN ==
    \A w \in Workers : \A t \in Threads :
        LET me == th[w][t]
            N == Len(sessions[w])
        IN  /\ me.calls <= N
            /\ Len(me.used) = me.calls
            /\ (me.pc = "returned" /\ me.exit = "exhausted") =>
                  (N >= 1 /\ me.calls = N /\ me.tried_sessions = N /\ me.exhausted
                   /\ ~me.success)
            /\ (me.pc = "while" /\ me.tried_sessions < N) => ~me.exhausted

(* C1 witness: a prompt exhausted a pool of two that it entered with the   *)
(* cursor on the second credential.                                        *)
C1_Witness ==
    \E w \in Workers : \E t \in Threads :
        /\ th[w][t].pc = "returned" /\ th[w][t].exit = "exhausted"
        /\ Len(sessions[w]) = 2 /\ th[w][t].used = <<2, 1>>

(* C2: the step in which a reply classified Abort is handled returns from  *)
(* process_prompt with failure, leaves the cursor where it was, issues no  *)
(* call and schedules no download; the thread's next step leaves the       *)
(* prompt for the next one.                                                *)
C2_AbortEndsPrompt ==
    [][\A w \in Workers : \A t \in Threads :
          /\ (th[w][t].pc = "call_api" /\ Replied(w, t)' /\ event'.class = "Abort") =>
                /\ th'[w][t].pc = "returned" /\ ~th'[w][t].success
                /\ th'[w][t].exit = "abort"
                /\ current_session_index'[w] = current_session_index[w]
                /\ th'[w][t].calls = th[w][t].calls
                /\ th'[w][t].tried_sessions = th[w][t].tried_sessions
                /\ th'[w][t].dl = <<>>
          /\ (th[w][t].pc = "returned" /\ th[w][t].exit = "abort"
              /\ th'[w][t].pc # "returned") =>
                /\ th'[w][t].pc = "for" /\ th'[w][t].i = th[w][t].i + 1
                /\ current_session_index'[w] = current_session_index[w]
      ]_vars

(* C2 witness: the first attempt of a prompt was aborted with a second     *)
(* credential still untried.                                               *)
C2_Witness ==
    \E w \in Workers : \E t \in Threads :
        /\ Replied(w, t) /\ event.class = "Abort"
        /\ th[w][t].pc = "returned" /\ th[w][t].calls = 1
        /\ Len(sessions[w]) = 2

(* C3 as stated: after a Success with k returned items exactly k downloads *)
(* are scheduled.                                                          *)
C3_AllItemsScheduled ==
    \A w \in Workers : \A t \in Threads :
        (Replied(w, t) /\ event.class = "Success") =>
            Len(th[w][t].dl) = Len(event.data)

(* C3 amended: the step in which a Success is handled returns success,     *)
(* leaves the cursor where it was, issues no call, and schedules exactly   *)
(* one download per returned item that carries a url, in the order         *)
(* returned; the thread's next step leaves the prompt for the next one.    *)
C3_SuccessSchedulesUrlItems ==
    [][\A w \in Workers : \A t \in Threads :
          /\ (th[w][t].pc = "call_api" /\ Replied(w, t)' /\ event'.class = "Success") =>
                /\ th'[w][t].pc = "returned" /\ th'[w][t].success
                /\ current_session_index'[w] = current_session_index[w]
                /\ th'[w][t].calls = th[w][t].calls
                /\ th'[w][t].tried_sessions = th[w][t].tried_sessions
                /\ Increasing(th'[w][t].dl)
                /\ Range(th'[w][t].dl) =
                     {k \in 1..Len(event'.data) : event'.data[k] = "url"}
          /\ (th[w][t].pc = "returned" /\ th[w][t].success
              /\ th'[w][t].pc # "returned") =>
                /\ th'[w][t].pc = "for" /\ th'[w][t].i = th[w][t].i + 1
                /\ current_session_index'[w] = current_session_index[w]
      ]_vars

(* C3 witness: a Success on the second attempt returned two items, the     *)
(* first without a url, and the second was scheduled.                      *)
C3_Witness ==
    \E w \in Workers : \E t \in Threads :
        /\ Replied(w, t) /\ event.class = "Success"
        /\ event.data = <<"nourl", "url">> /\ th[w][t].dl = <<2>>
        /\ th[w][t].calls = 2

(* C4 as stated: a thread that was alive when stop() was called starts no  *)
(* API call afterwards.                                                    *)
C4_NoCallAfterStop ==
    [][\A w \in Workers : \A t \in Threads :
          th[w][t].stop_req # "no" =>
              ~(th[w][t].pc # "call_api" /\ th'[w][t].pc = "call_api")
      ]_vars

(* C5 as stated: once stop() was called while a thread was inside          *)
(* process_prompt for prompt j, the prompts before j are logged, the       *)
(* thread passes no further prompt to process_prompt, and the status it    *)
(* publishes at its end is "Stopped".                                      *)
C5_StopAbandonsBatch ==
    [][\A w \in Workers : \A t \in Threads :
          th[w][t].stop_req = "prompt" =>
              /\ Len(th[w][t].logged) >= Len(th[w][t].attempted) - 1
              /\ th'[w][t].attempted = th[w][t].attempted
              /\ (th'[w][t].pc = "done" => th'[w][t].status = Status("Stopped"))
      ]_vars

(* C6: every run passes its prompts to process_prompt in file order, the   *)
(* next one only after the previous one returned and was logged; a run     *)
(* that left the loop without having seen running false passed every       *)
(* prompt of the batch, each once.                                         *)
C6_PromptsInFileOrder ==
    \A w \in Workers : \A t \in Threads :
        LET me == th[w][t] IN
        /\ IsPrefixOfOrder(me.attempted) /\ IsPrefixOfOrder(me.logged)
        /\ Len(me.attempted) <= me.prompts
        /\ Len(me.attempted) =
             Len(me.logged) + (IF InPrompt(w, t) \/ me.pc = "returned" THEN 1 ELSE 0)
        /\ (me.pc \in {"clear", "publish"} /\ ~me.halted) =>
              (Len(me.logged) = me.prompts /\ me.prompts >= 1)

(* C6 witness: a run that never saw running false is at its end with both *)
(* prompts of its batch processed, the first of them aborted.              *)
C6_Witness ==
    \E w \in Workers : \E t \in Threads :
        /\ th[w][t].pc = "publish" /\ ~th[w][t].halted
        /\ th[w][t].logged = <<1, 2>> /\ th[w][t].stop_req = "no"

(* C7: call_api on a parsed body classifies by the decision table:         *)
(* Success iff code absent or zero and data non-empty; Abort iff code      *)
(* present, non-zero, non-negative and not session-invalidating;           *)
(* SwitchSession otherwise.                                                *)
C7_DecisionTable ==
    (api.made /\ api.resp.fault = "none") =>
        LET b == api.resp.body
            class == Classification(api.out)
            noError == ~b.has_code \/ b.code = 0
            hasData == b.has_data /\ Len(b.data) > 0
            rejected == b.has_code /\ b.code > 0 /\ b.code \notin SESSION_ERROR_CODES
        IN  /\ (class = "Success") <=> (noError /\ hasData)
            /\ (class = "Abort") <=> rejected
            /\ (class = "SwitchSession") <=> (~(noError /\ hasData) /\ ~rejected)
            /\ (class = "Success") => api.out.result.data = b.data

(* C7 witness: a body with a negative code outside the set and with data   *)
(* was classified SwitchSession.                                           *)
C7_Witness ==
    /\ api.made /\ api.resp.fault = "none"
    /\ api.resp.body.has_code /\ api.resp.body.code = -1
    /\ api.resp.body.has_data /\ Len(api.resp.body.data) = 2
    /\ Classification(api.out) = "SwitchSession"

(* C8 as stated: a transport error, a timeout, an HTTP error status or an  *)
(* unparseable body is classified SwitchSession.                           *)
C8_HttpFailureSwitches ==
    (api.made /\ (api.resp.fault # "none" \/ api.resp.http_error)) =>
        Classification(api.out) = "SwitchSession"

(* C9: a start() on a worker whose running flag is true changes neither    *)
(* the flag, the cursor, the session list, the number of threads nor any   *)
(* thread's locals.                                                        *)
C9_StartWhileRunningIsNoOp ==
    [][\A w \in Workers :
          (running[w] /\ event'.op = "start" /\ event'.w = w) =>
              UNCHANGED <<running, current_session_index, sessions, thread, th>>
      ]_vars

(* C9 witness: start() was called on a running worker whose run is inside  *)
(* its second prompt with the cursor advanced.                             *)
C9_Witness ==
    \E w \in Workers :
        /\ event.op = "start" /\ event.w = w /\ running[w]
        /\ thread[w] = 1 /\ th[w][1].pc = "call_api" /\ th[w][1].i = 1
        /\ current_session_index[w] = 1

(* C10 as stated: a run that processed every prompt without a stop()       *)
(* publishes "Completed" at its end, and a run publishes "Stopped" only    *)
(* if it saw the flag cleared by a stop().                                 *)
C10_CompletedWhenNotStopped ==
    \A w \in Workers : \A t \in Threads :
        LET me == th[w][t] IN
        (me.pc = "done" /\ me.status.text \in {"Completed", "Stopped"}) =>
            /\ (Len(me.logged) = me.prompts /\ me.stop_req = "no") =>
                  me.status = Status("Completed")
            /\ me.status = Status("Stopped") => me.stop_req # "no"

(* The state of one worker that its own operations read and write.         *)
RunState(w) ==
    <<running[w], current_session_index[w], sessions[w], thread[w], th[w]>>
LoadFails(w) ==
    session_file[w] \in {Unreadable, 0} \/ prompt_file[w] \in {Unreadable, 0}
ErrorStatus(w) ==
    IF session_file[w] \in {Unreadable, 0} THEN Status("Error: No sessions")
    ELSE IF prompt_file[w] = Unreadable THEN Status("Error")
    ELSE Status("Error: No prompts")

(* C11: on a worker whose session file or prompt file is unreadable or     *)
(* has no non-blank line, every run issues no API call and enters no       *)
(* prompt, never gets past the loading of the files, and ends with the     *)
(* error status of the failed load; and the steps of such a worker change  *)
(* nothing of any other worker.                                            *)
C11_LoadFailureEndsRun ==
    [][\A w \in Workers :
          LoadFails(w) =>
              /\ \A t \in Threads :
                    LET me == th'[w][t] IN
                    /\ me.pc \in {"new", "run", "open", "done"}
                    /\ me.calls = 0 /\ me.used = <<>>
                    /\ me.attempted = <<>> /\ me.logged = <<>>
                    /\ me.pc = "done" => me.status = ErrorStatus(w)
              /\ event'.w = w =>
                    \A v \in Workers \ {w} : RunState(v)' = RunState(v)
      ]_vars

(* C11 witness: the run of a worker without sessions has just ended in     *)
(* its error status while another worker has an API call in flight.        *)
C11_Witness ==
    \E w, v \in Workers :
        /\ w # v /\ session_file[w] \in {Unreadable, 0}
        /\ event = Event("step", w)
        /\ th[w][1].pc = "done" /\ th[w][1].status = Status("Error: No sessions")
        /\ running[v] /\ th[v][1].pc = "call_api"

(* C12: when process_prompt has ended a prompt in Abort or in session      *)
(* exhaustion, run() goes back to the head of its loop with the next       *)
(* position; at the head, with the running flag true and a prompt left,    *)
(* it enters that prompt; and it leaves the loop only when no prompt is    *)
(* left or the flag is false.                                              *)
C12_FailedPromptDoesNotEndRun ==
    [][\A w \in Workers : \A t \in Threads :
          LET me == th[w][t]
              nx == th'[w][t] IN
          /\ (me.pc = "returned" /\ me.exit \in {"abort", "exhausted"}
                 /\ nx.pc # "returned") =>
                 (nx.pc = "for" /\ nx.i = me.i + 1)
          /\ (me.pc = "for" /\ nx.pc # "for" /\ running[w]
                 /\ me.i < me.prompts) =>
                 (nx.pc = "while" /\ nx.attempted = Append(me.attempted, me.i + 1))
          /\ (me.pc = "for" /\ nx.pc = "clear") =>
                 (me.i >= me.prompts \/ ~running[w])
      ]_vars

(* C12 witness: the first prompt of two has just been logged as aborted    *)
(* and the run, never stopped, stands at the head of its loop with the     *)
(* second prompt to go.                                                    *)
C12_Witness ==
    \E w \in Workers :
        /\ event = Logged(w, 1, "abort")
        /\ th[w][1].pc = "for" /\ th[w][1].i = 1 /\ th[w][1].prompts = 2
        /\ running[w] /\ th[w][1].stop_req = "no"

(* C13 as stated: a worker never has two executor threads inside its       *)
(* prompt loop, and once a run was stopped and a later start() has made    *)
(* another thread, the stopped run enters no further prompt and issues no  *)
(* further API call.                                                       *)
C13_OneExecutorInPromptLoop ==
    [][\A w \in Workers :
          /\ Cardinality({t \in Threads :
                  th'[w][t].pc \in {"while", "switch", "returned"}}) <= 1
          /\ \A t \in Threads :
                (th[w][t].stop_req # "no" /\ t < thread[w]) =>
                    /\ th'[w][t].attempted = th[w][t].attempted
                    /\ ~(th[w][t].pc # "call_api" /\ th'[w][t].pc = "call_api")
      ]_vars

(* C14: a start(), a stop() or an executor step of one worker leaves the   *)
(* running flag, the cursor, the session list, the number of threads and   *)
(* every thread's locals (the prompt position among them) of every other   *)
(* worker unchanged.                                                       *)
C14_WorkersShareNoRunState ==
    [][\A w \in Workers :
          (event'.w = w /\ event'.op \in {"start", "stop", "step", "reply", "logged"}) =>
              \A v \in Workers \ {w} :
                  /\ running'[v] = running[v]
                  /\ current_session_index'[v] = current_session_index[v]
                  /\ sessions'[v] = sessions[v]
                  /\ thread'[v] = thread[v]
                  /\ th'[v] = th[v]
      ]_vars

(* C14 witness: stop() was just called on one worker while another worker  *)
(* is running with an API call in flight.                                  *)
C14_Witness ==
    \E w, v \in Workers :
        /\ w # v /\ event = Event("stop", w)
        /\ ~running[w] /\ th[w][1].stop_req = "prompt"
        /\ running[v] /\ th[v][1].pc = "call_api"

(* C15 as stated, in its safety part: run_all() starts a run (a new        *)
(* thread at the top of run(), the flag true) on every worker that has no  *)
(* executor thread alive, and changes nothing of a worker that is running  *)
(* with a thread alive; stop_all() leaves every flag false and moves no    *)
(* executor; and an executor enters a prompt only while its worker's flag  *)
(* is true, so none does after a stop_all() that no start follows.         *)
C15_RunAllStartsEveryIdleWorker ==
    [][/\ event'.op = "run_all" =>
            \A w \in Workers :
                /\ (\A t \in Threads : ~Alive(w, t)) =>
                       /\ running'[w]
                       /\ thread'[w] = thread[w] + 1
                       /\ th'[w][thread'[w]].pc = "run"
                /\ (running[w] /\ \E t \in Threads : Alive(w, t)) =>
                       RunState(w)' = RunState(w)
       /\ event'.op = "stop_all" =>
            \A w \in Workers :
                /\ ~running'[w]
                /\ \A t \in Threads : th'[w][t].pc = th[w][t].pc
       /\ \A w \in Workers : \A t \in Threads :
            ~running[w] => th'[w][t].attempted = th[w][t].attempted
      ]_vars

(* C16 as stated: the cursor of a worker comes back to index 0 from        *)
(* another index only in a start().                                        *)
C16_CursorBackToZeroOnlyByStart ==
    [][\A w \in Workers :
          (current_session_index[w] # 0 /\ current_session_index'[w] = 0) =>
              event' = Event("start", w)
      ]_vars

(* C16, amended: the cursor of a worker changes only in a start() that     *)
(* launches a run, which sets it to 0 whatever it was, and in the advance  *)
(* of line 232, which sets it to the index that thread read plus one       *)
(* modulo the number of sessions and so reaches 0 only by wrapping from    *)
(* the last index.                                                         *)
C16_CursorResetOnlyByStart ==
    [][\A w \in Workers :
          current_session_index'[w] # current_session_index[w] =>
              \/ /\ event' = Event("start", w) /\ ~running[w]
                 /\ current_session_index'[w] = 0
              \/ \E t \in Threads :
                 /\ th[w][t].pc = "switch" /\ th'[w][t].pc = "while"
                 /\ current_session_index'[w] =
                        (th[w][t].idx + 1) % Len(sessions[w])
                 /\ current_session_index'[w] = 0 =>
                        th[w][t].idx = Len(sessions[w]) - 1
      ]_vars

(* C16 witness: an executor has just advanced the cursor from the last     *)
(* index of a pool of two back to index 0, in the middle of its run.       *)
C16_Witness ==
    \E w \in Workers : \E t \in Threads :
        /\ event = Event("step", w) /\ running[w]
        /\ Len(sessions[w]) = 2 /\ current_session_index[w] = 0
        /\ th[w][t].pc = "while" /\ th[w][t].tried_sessions = 2
        /\ th[w][t].used = <<1, 2>>

(* C17 as stated: the first API call of every later prompt of a thread     *)
(* uses the credential at the position the cursor had when the prompt      *)
(* before it returned, and the first API call of the first prompt of       *)
(* every thread uses the credential at index 0.                            *)
C17_CursorCarriedBetweenPrompts ==
    [][\A w \in Workers : \A t \in Threads :
          LET me == th[w][t] IN
          (me.pc = "while" /\ me.calls = 0 /\ th'[w][t].pc = "call_api") =>
              th'[w][t].used =
                  <<sessions[w][(IF me.i = 0 THEN 0 ELSE me.left) + 1]>>
      ]_vars

(* C18 as stated: when process_prompt ends a prompt in session exhaustion, *)
(* the API calls it made for that prompt used every credential of the      *)
(* pool, each exactly once.                                                *)
C18_ExhaustionTriedEveryCredential ==
    \A w \in Workers : \A t \in Threads :
        LET me == th[w][t] IN
        (me.pc = "returned" /\ me.exit = "exhausted") =>
            /\ Len(me.used) = Len(sessions[w])
            /\ Range(me.used) = Range(sessions[w])

(* C19 as stated: a worker none of whose executor threads is alive has     *)
(* its running flag false.                                                 *)
C19_NoExecutorMeansNotRunning ==
    \A w \in Workers :
        (\A t \in Threads : ~Alive(w, t)) => ~running[w]

(* C20 as stated: the running flag of a worker goes from true to false     *)
(* only in a stop() or in line 282 of the thread that the latest start()   *)
(* created.                                                                *)
C20_OnlyOwnRunClearsFlag ==
    [][\A w \in Workers :
          (running[w] /\ ~running'[w]) =>
              \/ event' = Event("stop", w)
              \/ /\ th[w][thread[w]].pc = "clear"
                 /\ th'[w][thread[w]].pc = "publish"
      ]_vars

(* C21 as stated: whenever the session list of a worker is loaded with N >= 1        *)
(* entries, its cursor is one of 0 .. N-1 and no thread has died on the    *)
(* read of line 201; and the advance of line 232 from the last index sets  *)
(* the cursor to 0.                                                        *)
C21_CursorInRange ==
    [][\A w \in Workers :
          /\ Len(sessions'[w]) >= 1 =>
                /\ current_session_index'[w] \in 0..(Len(sessions'[w]) - 1)
                /\ \A t \in Threads : th'[w][t].exit # "raised"
          /\ \A t \in Threads :
                (th[w][t].pc = "switch" /\ th'[w][t].pc = "while"
                   /\ th[w][t].idx = Len(sessions[w]) - 1) =>
                    current_session_index'[w] = 0
      ]_vars

====
